---- MODULE Spec2Model ----
(***************************************************************************)
(* Usage / quota accounting of arni-worker: the rolling 5-hour window and  *)
(* the weekly budget kept under the key claude_max_usage, the aggregate    *)
(* statistics kept under the key model_stats, and the POST /usage handler  *)
(* that feeds both.  Every request is a process whose steps are the        *)
(* stretches of code between two awaits on the key-value store.            *)
(*                                                                         *)
(* Time is Date.now() in milliseconds.  The instants of the model lie in   *)
(* January 1970 so that every sum fits a 32-bit integer; the weekday       *)
(* arithmetic is the one of the real epoch (1970-01-01 was a Thursday).    *)
(***************************************************************************)
EXTENDS Integers, Sequences, FiniteSets, TLC

VARIABLES
    clock,      \* the wall clock, what Date.now() / new Date() return
    kvMax,      \* env.MEMORY value under 'claude_max_usage': <<>> or <<record>>
    kvStats,    \* env.MEMORY value under 'model_stats': <<>> or <<record>>
    kvUsage,    \* env.MEMORY values under 'usage:<ms>': function ms -> record
    pc,         \* per request: where the handler is suspended
    usage,      \* per request: the usage object built by handleUsageLog
    stats,      \* per request: what getModelStats returned to updateModelStats
    raw,        \* per request: what env.MEMORY.get('claude_max_usage') returned
    clockReads, \* per request: the clock as updateClaudeMaxUsage read it, for
                \* now, inside getWeekStart() and for lastSession
    toStore,    \* per request: the value updateClaudeMaxUsage put
    puts,       \* per request: the keys it has put so far, in order
    lastRead,   \* the getClaudeMaxUsage call just made: its clock, input and result
    nStarted,   \* calls accepted so far
    nDone,      \* updateModelStats calls that have put model_stats and returned
    bound,      \* env.MEMORY is bound
    via,        \* per request: the function that was called
    id,         \* per request: the <ms> of the key handleUsageLog chose
    response,   \* per request: what the call answered, <<>> while it runs
    thrown,     \* per request: what raised the exception that ended it, if any
    submitted,  \* the request bodies recorded so far, in order
    lastStats,  \* the getModelStats call just made: its input and outcome
    kvRecords,  \* env.MEMORY values under 'task:<ms>' and 'note:<ms>': function
                \* <<kind, ms>> -> record
    existing    \* per request: what the get of an update request returned

vars == <<clock, kvMax, kvStats, kvUsage, pc, usage, stats, raw, clockReads,
          toStore, puts, lastRead, nStarted, nDone, bound, via, id, response,
          thrown, submitted, lastStats,
          kvRecords, existing>>

----------------------------------------------------------------------------
(* Bounds of the model *)

MaxEvents == 2
NProcs == 2
MaxElapsed == 1
MaxStored == 12

Procs == 1..NProcs

----------------------------------------------------------------------------
(* Configuration defaults (config.js) and time constants *)

maxTokensLimit == 88000
weeklyTokensLimit == 400000
windowDurationMs == 18000000
opusCostIn == 15
opusCostOut == 75
HourMs == 3600000
DayMs == 86400000
WeekMs == 604800000

----------------------------------------------------------------------------
(* JavaScript values *)

\* null from env.MEMORY.get, and a stored JSON text parsed back to its value
Absent == <<>>

\* a stored text is <<>> when the key is absent, the 1-tuple of its value
\* when it is the JSON text of that value, and Malformed when JSON.parse
\* throws on it
Malformed == <<"{", "">>
Parses(text) == Len(text) <= 1

\* what a call answers that is no HTTP request: it returned, or it raised
Returned == [returned |-> TRUE]
Raised == [returned |-> FALSE]

\* Date.prototype.toISOString(): a string that determines the instant to the
\* millisecond; kept as a 1-tuple so that it is no number
ISO(t) == <<t>>

\* the part of toISOString() before 'T': the UTC calendar day
utcDate(t) == t \div DayMs

Max(a, b) == IF a >= b THEN a ELSE b

\* Math.ceil(a / b), b > 0
Ceil(a, b) == -((-a) \div b)

\* Number.prototype.toFixed(1) of ms / 3600000, kept in tenths of an hour
toFixed1(ms) == <<(ms + (HourMs \div 20)) \div (HourMs \div 10)>>

\* obj.f is not undefined
Has(obj, f) == f \in DOMAIN obj

\* obj.f is truthy, for a numeric field: neither undefined nor 0
Truthy(obj, f) == Has(obj, f) /\ obj[f] # 0

\* obj.f || dflt, for a number (0 is falsy)
OrNum(obj, f, dflt) == IF Has(obj, f) /\ obj[f] # 0 THEN obj[f] ELSE dflt

\* obj.f || 0, for a Number that holds money (0 is the empty sequence)
OrNumber(obj, f) == IF Has(obj, f) THEN obj[f] ELSE <<>>

\* obj.f || dflt, for a string ('' is falsy)
OrStr(obj, f, dflt) == IF Has(obj, f) /\ obj[f] # "" THEN obj[f] ELSE dflt

\* obj.f = v
Put(obj, f, v) == [g \in DOMAIN obj \cup {f} |-> IF g = f THEN v ELSE obj[g]]

\* members every object literal and JSON.parse result inherits from
\* Object.prototype: obj[k] is truthy for them although k is no own property
ObjectPrototypeKeys ==
    {"constructor", "toString", "valueOf", "hasOwnProperty", "__proto__"}

----------------------------------------------------------------------------
(* Numbers that hold money are IEEE 754 binary64.  A non-negative binary64  *)
(* value is kept exactly, as the natural number value * 2^FracBits written  *)
(* in binary, least significant bit first and without leading zeros; zero   *)
(* is the empty sequence.  Every operation computes the exact result and    *)
(* rounds it to Precision significant bits, ties to even.  The values of    *)
(* the model lie between 2^(Precision - FracBits) and 2^7, where this       *)
(* grid holds every binary64 value.                                         *)

Precision == 53
FracBits == 70
GuardBits == 3

LimbBits == 10
Base == 2 ^ LimbBits

Zeros(k) == [i \in 1..k |-> 0]

BitAt(b, i) == IF i <= Len(b) THEN b[i] ELSE 0

\* b * 2^k
ShiftLeft(b, k) == IF b = <<>> THEN <<>> ELSE Zeros(k) \o b

\* floor(b / 2^k)
ShiftRight(b, k) == IF Len(b) <= k THEN <<>> ELSE SubSeq(b, k + 1, Len(b))

\* the arithmetic runs on digits of LimbBits bits, least significant first
RECURSIVE LimbOf(_, _, _)
LimbOf(b, j, k) ==
    IF k = LimbBits THEN 0
    ELSE BitAt(b, LimbBits * (j - 1) + k + 1) + 2 * LimbOf(b, j, k + 1)

ToLimbs(b) == [j \in 1..((Len(b) + LimbBits - 1) \div LimbBits) |-> LimbOf(b, j, 0)]

\* the number of digits of l without its leading zeros
RECURSIVE Digits(_, _)
Digits(l, j) == IF j = 0 \/ l[j] # 0 THEN j ELSE Digits(l, j - 1)

\* the number of bits of the natural number n
RECURSIVE BitLength(_)
BitLength(n) == IF n = 0 THEN 0 ELSE 1 + BitLength(n \div 2)

ToBits(l) ==
    LET top == Digits(l, Len(l))
    IN  IF top = 0 THEN <<>>
        ELSE [i \in 1..(LimbBits * (top - 1) + BitLength(l[top])) |->
                 (l[((i - 1) \div LimbBits) + 1] \div (2 ^ ((i - 1) % LimbBits))) % 2]

LimbAt(l, j) == IF j <= Len(l) THEN l[j] ELSE 0

FromNat(n) == ToBits(<<n % Base, (n \div Base) % Base, (n \div (Base * Base)) % Base,
                       n \div (Base * Base * Base)>>)

RECURSIVE AddFrom(_, _, _, _, _)
AddFrom(a, b, j, carry, sum) ==
    IF j > Len(a) /\ j > Len(b) THEN Append(sum, carry)
    ELSE AddFrom(a, b, j + 1, (LimbAt(a, j) + LimbAt(b, j) + carry) \div Base,
                 Append(sum, (LimbAt(a, j) + LimbAt(b, j) + carry) % Base))

AddBits(a, b) == ToBits(AddFrom(ToLimbs(a), ToLimbs(b), 1, 0, <<>>))

RECURSIVE SubFrom(_, _, _, _, _)
SubFrom(a, b, j, borrow, diff) ==
    IF j > Len(a) THEN diff
    ELSE SubFrom(a, b, j + 1, IF a[j] - LimbAt(b, j) - borrow < 0 THEN 1 ELSE 0,
                 Append(diff, (a[j] - LimbAt(b, j) - borrow) % Base))

\* a - b, for a >= b
SubBits(a, b) == ToBits(SubFrom(ToLimbs(a), ToLimbs(b), 1, 0, <<>>))

RECURSIVE LessFrom(_, _, _)
LessFrom(a, b, j) ==
    IF j = 0 THEN FALSE
    ELSE IF a[j] # b[j] THEN a[j] < b[j]
    ELSE LessFrom(a, b, j - 1)

\* a < b
LessBits(a, b) ==
    IF Len(a) # Len(b) THEN Len(a) < Len(b)
    ELSE LessFrom(ToLimbs(a), ToLimbs(b), Len(ToLimbs(a)))

RECURSIVE MulFrom(_, _, _, _, _)
MulFrom(a, n, j, carry, prod) ==
    IF j > Len(a) THEN prod \o <<carry % Base, carry \div Base>>
    ELSE MulFrom(a, n, j + 1, (a[j] * n + carry) \div Base,
                 Append(prod, (a[j] * n + carry) % Base))

\* b * n, n a natural number below Base * Base
MulNat(b, n) == ToBits(MulFrom(ToLimbs(b), n, 1, 0, <<>>))

\* long division by the natural number d, d below Base * Base, from the top
\* digit down: the quotient and the remainder
RECURSIVE DivFrom(_, _, _, _, _)
DivFrom(a, d, j, rem, quot) ==
    IF j = 0 THEN [quot |-> ToBits(quot), rem |-> rem]
    ELSE DivFrom(a, d, j - 1, (rem * Base + a[j]) % d,
                 <<(rem * Base + a[j]) \div d>> \o quot)

DivNat(b, d) == DivFrom(ToLimbs(b), d, Len(ToLimbs(b)), 0, <<>>)

\* the binary64 value nearest to b (+ a little, if sticky), ties to even
RoundBits(b, sticky) ==
    IF Len(b) <= Precision THEN b
    ELSE LET d == Len(b) - Precision
             kept == SubSeq(b, d + 1, Len(b))
             half == b[d] = 1
             more == sticky \/ \E i \in 1..(d - 1) : b[i] = 1
             up == half /\ (more \/ kept[1] = 1)
         IN  ShiftLeft(IF up THEN AddBits(kept, <<1>>) ELSE kept, d)

\* the Number a decimal text n/d denotes (a literal, or JSON.parse)
Number(n, d) ==
    LET q == DivNat(ShiftLeft(FromNat(n), FracBits + GuardBits), d)
    IN  ShiftRight(RoundBits(q.quot, q.rem # 0), GuardBits)

\* x * n, n an integer Number
FMul(x, n) == RoundBits(MulNat(x, n), FALSE)

\* x + y
FAdd(x, y) ==
    IF x = <<>> THEN y ELSE IF y = <<>> THEN x ELSE RoundBits(AddBits(x, y), FALSE)

\* x / d, d an integer Number
FDiv(x, d) ==
    LET q == DivNat(ShiftLeft(x, GuardBits), d)
    IN  ShiftRight(RoundBits(q.quot, q.rem # 0), GuardBits)

\* Math.max(0, x - y)
FSubMax0(x, y) == IF LessBits(y, x) THEN RoundBits(SubBits(x, y), FALSE) ELSE <<>>

----------------------------------------------------------------------------
(* Strings that the code inspects are sequences of characters *)

UpperToLower ==
    [c \in {"A","B","C","D","E","F","G","H","I","J","K","L","M","N","O","P",
            "Q","R","S","T","U","V","W","X","Y","Z"} |->
       CASE c = "A" -> "a" [] c = "B" -> "b" [] c = "C" -> "c" [] c = "D" -> "d"
         [] c = "E" -> "e" [] c = "F" -> "f" [] c = "G" -> "g" [] c = "H" -> "h"
         [] c = "I" -> "i" [] c = "J" -> "j" [] c = "K" -> "k" [] c = "L" -> "l"
         [] c = "M" -> "m" [] c = "N" -> "n" [] c = "O" -> "o" [] c = "P" -> "p"
         [] c = "Q" -> "q" [] c = "R" -> "r" [] c = "S" -> "s" [] c = "T" -> "t"
         [] c = "U" -> "u" [] c = "V" -> "v" [] c = "W" -> "w" [] c = "X" -> "x"
         [] c = "Y" -> "y" [] c = "Z" -> "z"]

toLowerCase(s) ==
    [i \in 1..Len(s) |-> IF s[i] \in DOMAIN UpperToLower THEN UpperToLower[s[i]] ELSE s[i]]

includes(s, pat) ==
    \E i \in 0..(Len(s) - Len(pat)) : \A j \in 1..Len(pat) : s[i + j] = pat[j]

\* the characters of the strings that occur as model names
Chars(s) ==
    CASE s = "claude-opus-4" -> <<"c","l","a","u","d","e","-","o","p","u","s","-","4">>
      [] s = "Claude-OPUS" -> <<"C","l","a","u","d","e","-","O","P","U","S">>
      [] s = "claude-sonnet" -> <<"c","l","a","u","d","e","-","s","o","n","n","e","t">>
      [] s = "gemini-pro" -> <<"g","e","m","i","n","i","-","p","r","o">>
      [] s = "unknown" -> <<"u","n","k","n","o","w","n">>
      [] s = "opus" -> <<"o","p","u","s">>
      [] s = "" -> <<>>

----------------------------------------------------------------------------
(* The clock *)

ThuMorning == 10 * HourMs         \* Thursday 1970-01-01 10:00 UTC
MondayJan5 == 4 * DayMs           \* Monday 1970-01-05 00:00 UTC
SundayLastMs == MondayJan5 - 1    \* Sunday 1970-01-04 23:59:59.999 UTC
MondayJan12 == MondayJan5 + WeekMs

\* the instants at which the model looks at the program
Times ==
    { ThuMorning, ThuMorning + windowDurationMs, ThuMorning + windowDurationMs + 1,
      SundayLastMs, MondayJan5, MondayJan12 }

\* what a later clock read of the same request may return: the clock advances
\* by at most MaxElapsed between two reads
LaterReads(t) == {u \in Times \cup {t} : u >= t /\ u - t <= MaxElapsed}

\* Date.prototype.getUTCDay(): 0 is Sunday
getUTCDay(t) == ((t \div DayMs) + 4) % 7

getWeekStart(t) ==
    LET day == getUTCDay(t)
        diff == IF day = 0 THEN 6 ELSE day - 1
    IN  ((t \div DayMs) - diff) * DayMs

----------------------------------------------------------------------------
(* services/claude-max.js *)

\* getDefaultMaxUsage that reports a window with no time left
getDefaultMaxUsageNoTime(tNow, tWeek) ==
    [ tokensUsed |-> 0,
      tokensLimit |-> maxTokensLimit,
      windowStart |-> tNow,
      timeRemainingMs |-> 0,
      timeRemainingHours |-> toFixed1(0),
      sessions |-> 0,
      lastSession |-> <<>>,
      weeklyTokensUsed |-> 0,
      weeklyTokensLimit |-> weeklyTokensLimit,
      weekStart |-> getWeekStart(tWeek) ]

getDefaultMaxUsage(tNow, tWeek) ==
    [ tokensUsed |-> 0,
      tokensLimit |-> maxTokensLimit,
      windowStart |-> tNow,
      timeRemainingMs |-> windowDurationMs,
      timeRemainingHours |-> toFixed1(windowDurationMs),
      sessions |-> 0,
      lastSession |-> <<>>,
      weeklyTokensUsed |-> 0,
      weeklyTokensLimit |-> weeklyTokensLimit,
      weekStart |-> getWeekStart(tWeek) ]

\* ReadResetWindow that also resets a window that is exactly 5h old
ReadResetWindowAtLimit(u, windowStart, tNow) ==
    IF tNow - windowStart >= windowDurationMs
    THEN Put(Put(Put(u, "tokensUsed", 0), "windowStart", tNow), "sessions", 0)
    ELSE u

\* getClaudeMaxUsage lines 22-27: the 5h window has expired
ReadResetWindow(u, windowStart, tNow) ==
    IF tNow - windowStart > windowDurationMs
    THEN Put(Put(Put(u, "tokensUsed", 0), "windowStart", tNow), "sessions", 0)
    ELSE u

\* getClaudeMaxUsage lines 29-33: the week changed
ReadResetWeek(u, currentWeekStart) ==
    IF ~Truthy(u, "weekStart") \/ u.weekStart < currentWeekStart
    THEN Put(Put(u, "weeklyTokensUsed", 0), "weekStart", currentWeekStart)
    ELSE u

\* getClaudeMaxUsage with env.MEMORY bound: data is what get returned, tNow
\* the clock read by Date.now(), tWeek the clock read inside getWeekStart();
\* a text that does not parse is caught (lines 50-52)
getClaudeMaxUsage(data, tNow, tWeek) ==
    IF data = Absent \/ ~Parses(data) THEN getDefaultMaxUsage(tNow, tWeek)
    ELSE
    LET parsed == data[1]
        windowStart == OrNum(parsed, "windowStart", tNow)
        currentWeekStart == getWeekStart(tWeek)
        u1 == ReadResetWindow(parsed, windowStart, tNow)
        u2 == ReadResetWeek(u1, currentWeekStart)
        timeRemaining == windowDurationMs - (tNow - OrNum(u2, "windowStart", tNow))
        u3 == Put(Put(u2, "timeRemainingMs", Max(0, timeRemaining)),
                  "timeRemainingHours", toFixed1(Max(0, timeRemaining)))
        msUntilMonday == (currentWeekStart + WeekMs) - tNow
        u4 == Put(u3, "daysUntilWeekReset", Ceil(msUntilMonday, DayMs))
        u5 == Put(u4, "weeklyTokensUsed", OrNum(u4, "weeklyTokensUsed", 0))
        u6 == Put(u5, "weeklyTokensLimit", OrNum(u5, "weeklyTokensLimit", weeklyTokensLimit))
    IN  Put(u6, "tokensLimit", OrNum(u6, "tokensLimit", maxTokensLimit))

\* RecordResetWindow that restarts the window but keeps its counters
RecordResetWindowKeepsCounters(u, tNow) ==
    IF tNow - u.windowStart > windowDurationMs
    THEN Put(u, "windowStart", tNow)
    ELSE u

\* updateClaudeMaxUsage lines 69-73: the 5h window has expired
RecordResetWindow(u, tNow) ==
    IF tNow - u.windowStart > windowDurationMs
    THEN Put(Put(Put(u, "tokensUsed", 0), "windowStart", tNow), "sessions", 0)
    ELSE u

\* RecordResetWeek that advances weekStart but keeps weeklyTokensUsed
RecordResetWeekKeepsTokens(u, currentWeekStart) ==
    IF ~Truthy(u, "weekStart") \/ u.weekStart < currentWeekStart
    THEN Put(u, "weekStart", currentWeekStart)
    ELSE u

\* RecordResetWeek that restarts the session count with the week
RecordResetWeekResetsSessions(u, currentWeekStart) ==
    IF ~Truthy(u, "weekStart") \/ u.weekStart < currentWeekStart
    THEN Put(Put(Put(u, "weeklyTokensUsed", 0), "weekStart", currentWeekStart), "sessions", 0)
    ELSE u

\* updateClaudeMaxUsage lines 75-78: the week changed
RecordResetWeek(u, currentWeekStart) ==
    IF ~Truthy(u, "weekStart") \/ u.weekStart < currentWeekStart
    THEN Put(Put(u, "weeklyTokensUsed", 0), "weekStart", currentWeekStart)
    ELSE u

\* AccumulateMaxUsage that leaves weeklyTokensUsed as it is
AccumulateMaxUsageWindowOnly(data, totalTokens, tNow, tWeek, tLast) ==
    LET u0 == IF data # Absent
              THEN RecordResetWeek(RecordResetWindow(data[1], tNow), getWeekStart(tWeek))
              ELSE getDefaultMaxUsage(tNow, tWeek)
        u1 == Put(u0, "tokensUsed", u0.tokensUsed + totalTokens)
        u2 == Put(u1, "weeklyTokensUsed", OrNum(u1, "weeklyTokensUsed", 0))
        u3 == Put(u2, "sessions", u2.sessions + 1)
    IN  Put(u3, "lastSession", ISO(tLast))

\* lines 64-86: the usage object after the resets and the accumulation.
\* tNow is the clock read by Date.now() (or by getDefaultMaxUsage), tWeek the
\* one read by getWeekStart(), tLast the one read for lastSession.
AccumulateMaxUsage(data, totalTokens, tNow, tWeek, tLast) ==
    LET u0 == IF data # Absent
              THEN RecordResetWeek(RecordResetWindow(data[1], tNow), getWeekStart(tWeek))
              ELSE getDefaultMaxUsage(tNow, tWeek)
        u1 == Put(u0, "tokensUsed", u0.tokensUsed + totalTokens)
        u2 == Put(u1, "weeklyTokensUsed", OrNum(u1, "weeklyTokensUsed", 0) + totalTokens)
        u3 == Put(u2, "sessions", u2.sessions + 1)
    IN  Put(u3, "lastSession", ISO(tLast))

\* StoredFields that serialises the whole usage object
StoredFieldsWholeObject(u, tLast) == u

\* lines 88-97: the object that is serialised and put
StoredFields(u, tLast) ==
    [ tokensUsed |-> u.tokensUsed,
      tokensLimit |-> OrNum(u, "tokensLimit", maxTokensLimit),
      windowStart |-> u.windowStart,
      sessions |-> u.sessions,
      lastSession |-> u.lastSession,
      weeklyTokensUsed |-> u.weeklyTokensUsed,
      weeklyTokensLimit |-> OrNum(u, "weeklyTokensLimit", weeklyTokensLimit),
      weekStart |-> OrNum(u, "weekStart", getWeekStart(tLast)) ]

\* updateClaudeMaxUsage after its get: the value it puts
updateClaudeMaxUsage(data, tokensIn, tokensOut, tNow, tWeek, tLast) ==
    StoredFields(AccumulateMaxUsage(data, tokensIn + tokensOut, tNow, tWeek, tLast), tLast)

----------------------------------------------------------------------------
(* The events of the model *)

\* request bodies of POST /usage as request.json() returns them; a missing
\* field is undefined, and a cost is written in millionths of a dollar
Bodies ==
    { [provider |-> "anthropic", model |-> "claude-opus-4", tokens_in |-> 1000,
       tokens_out |-> 500, cost |-> Number(50000, 10 ^ 6), task_type |-> "planning"],
      [provider |-> "anthropic", model |-> "Claude-OPUS", tokens_in |-> 200,
       tokens_out |-> 100, task_type |-> "planning", success |-> FALSE],
      [provider |-> "anthropic", model |-> "claude-sonnet", tokens_in |-> 400,
       tokens_out |-> 0, cost |-> Number(12000, 10 ^ 6)],
      [provider |-> "gemini", model |-> "gemini-pro", tokens_in |-> 300,
       tokens_out |-> 100, cost |-> Number(0, 10 ^ 6), task_type |-> "general"],
      [model |-> "claude-opus-4", tokens_out |-> 50],
      [success |-> TRUE],
      [provider |-> "constructor", model |-> "gemini-pro", tokens_in |-> 10,
       tokens_out |-> 10, task_type |-> "general"] }

----------------------------------------------------------------------------
(* services/model-stats.js *)

ZeroTotals == [requests |-> 0, tokens_in |-> 0, tokens_out |-> 0, cost |-> <<>>]

getDefaultModelStats(t) ==
    [ providers |-> [k \in {"anthropic", "openrouter", "z_ai", "gemini", "local"} |-> ZeroTotals],
      models |-> <<>>,
      task_types |-> <<>>,
      model_task_matrix |-> <<>>,
      daily |-> <<>>,
      totals |-> [requests |-> 0, tokens_in |-> 0, tokens_out |-> 0, cost |-> <<>>,
                  savings |-> <<>>],
      lastUpdated |-> ISO(t) ]

\* AddUsage that counts into a fresh counter only
AddUsageOnce(x, u) ==
    IF x.requests > 0 THEN x
    ELSE [x EXCEPT !.requests = @ + 1,
                   !.tokens_in = @ + u.tokens_in,
                   !.tokens_out = @ + u.tokens_out,
                   !.cost = FAdd(@, u.cost)]

\* x.requests++; x.tokens_in += ...; x.tokens_out += ...; x.cost += ...
AddUsage(x, u) ==
    [x EXCEPT !.requests = @ + 1,
              !.tokens_in = @ + u.tokens_in,
              !.tokens_out = @ + u.tokens_out,
              !.cost = FAdd(@, u.cost)]

\* if (!map[k]) map[k] = {zeroes}; then the four increments on map[k].
\* For a key of Object.prototype map[k] is the inherited member, which is
\* truthy: no entry is created and the increments land on that member.
Upsert(map, k, u) ==
    IF k \in DOMAIN map THEN [map EXCEPT ![k] = AddUsage(@, u)]
    ELSE IF k \in ObjectPrototypeKeys THEN map
    ELSE Put(map, k, AddUsage(ZeroTotals, u))

\* lines 58-65: stats.daily[today], today being a date string
UpsertDaily(map, today, u) ==
    IF today \in DOMAIN map THEN [map EXCEPT ![today] = AddUsage(@, u)]
    ELSE Put(map, today, AddUsage(ZeroTotals, u))

\* MatrixIncrement that creates the cell without counting the event
MatrixIncrementFromZero(matrix, model, task) ==
    IF model \notin DOMAIN matrix /\ model \in ObjectPrototypeKeys THEN matrix
    ELSE LET row == IF model \in DOMAIN matrix THEN matrix[model] ELSE <<>>
         IN  Put(matrix, model, Put(row, task, IF Has(row, task) THEN row[task] + 1 ELSE 0))

\* lines 52-55: model_task_matrix[model][task_type] = (cell || 0) + 1
MatrixIncrement(matrix, model, task) ==
    IF model \notin DOMAIN matrix /\ model \in ObjectPrototypeKeys THEN matrix
    ELSE LET row == IF model \in DOMAIN matrix THEN matrix[model] ELSE <<>>
         IN  Put(matrix, model, Put(row, task, OrNum(row, task, 0) + 1))

\* opusCost without the division by 1000
opusCostPerToken(tokens_in, tokens_out) ==
    FAdd(FMul(Number(opusCostIn, 1000), tokens_in),
         FMul(Number(opusCostOut, 1000), tokens_out))

\* line 74; the rates of config.js are given in thousandths of a dollar
opusCost(tokens_in, tokens_out) ==
    FDiv(FAdd(FMul(Number(opusCostIn, 1000), tokens_in),
              FMul(Number(opusCostOut, 1000), tokens_out)), 1000)

\* Math.max(0, opusCost - usage.cost) of line 75
Saved(tokens_in, tokens_out, cost) == FSubMax0(opusCost(tokens_in, tokens_out), cost)

\* line 75 for the events of the model, computed once
SavedOf ==
    [k \in {<<OrNum(b, "tokens_in", 0), OrNum(b, "tokens_out", 0), OrNumber(b, "cost")>> :
               b \in Bodies} |-> Saved(k[1], k[2], k[3])]

\* AddTotals that stores the saving of the event alone
AddTotalsSetsSavings(totals, u) ==
    [AddUsage(totals, u) EXCEPT !.savings = SavedOf[<<u.tokens_in, u.tokens_out, u.cost>>]]

\* AddTotals without line 68
AddTotalsNoCount(totals, u) ==
    [totals EXCEPT !.tokens_in = @ + u.tokens_in,
                   !.tokens_out = @ + u.tokens_out,
                   !.cost = FAdd(@, u.cost),
                   !.savings = FAdd(@, SavedOf[<<u.tokens_in, u.tokens_out, u.cost>>])]

\* lines 67-75
AddTotals(totals, u) ==
    [AddUsage(totals, u) EXCEPT !.savings = FAdd(@, SavedOf[<<u.tokens_in, u.tokens_out, u.cost>>])]

\* IsOpus without toLowerCase()
IsOpusCaseSensitive(u) ==
    u.provider = "anthropic" /\ includes(Chars(u.model), Chars("opus"))

\* line 20
IsOpus(u) ==
    u.provider = "anthropic" /\ includes(toLowerCase(Chars(u.model)), Chars("opus"))

\* updateModelStats lines 24-77: the stats object that is serialised and put.
\* tToday is the clock read for today, tUpdated the one read for lastUpdated.
FoldUsage(s, u, tToday, tUpdated) ==
    [ providers |-> Upsert(s.providers, u.provider, u),
      models |-> Upsert(s.models, u.model, u),
      task_types |-> Upsert(s.task_types, u.task_type, u),
      model_task_matrix |-> MatrixIncrement(s.model_task_matrix, u.model, u.task_type),
      daily |-> UpsertDaily(s.daily, utcDate(tToday), u),
      totals |-> AddTotals(s.totals, u),
      lastUpdated |-> ISO(tUpdated) ]

----------------------------------------------------------------------------
(* handlers/usage.js *)

\* BuildUsage that takes a missing success for a failure
BuildUsageSuccessTruthy(body, tStamp) ==
    [ timestamp |-> ISO(tStamp),
      provider |-> OrStr(body, "provider", "unknown"),
      model |-> OrStr(body, "model", "unknown"),
      tokens_in |-> OrNum(body, "tokens_in", 0),
      tokens_out |-> OrNum(body, "tokens_out", 0),
      cost |-> OrNumber(body, "cost"),
      task_type |-> OrStr(body, "task_type", "general"),
      success |-> IF Has(body, "success") THEN body.success ELSE FALSE ]

\* lines 16-25
BuildUsage(body, tStamp) ==
    [ timestamp |-> ISO(tStamp),
      provider |-> OrStr(body, "provider", "unknown"),
      model |-> OrStr(body, "model", "unknown"),
      tokens_in |-> OrNum(body, "tokens_in", 0),
      tokens_out |-> OrNum(body, "tokens_out", 0),
      cost |-> OrNumber(body, "cost"),
      task_type |-> OrStr(body, "task_type", "general"),
      success |-> IF Has(body, "success") THEN body.success # FALSE ELSE TRUE ]

----------------------------------------------------------------------------
(* The state machine *)

\* a claude_max_usage record written before the weekly fields existed
LegacyMaxUsage ==
    [ tokensUsed |-> 1200, tokensLimit |-> maxTokensLimit,
      windowStart |-> ThuMorning - HourMs, sessions |-> 2,
      lastSession |-> ISO(ThuMorning - HourMs) ]

\* the result of a read that a caller wrote back under the key
WrittenBackMaxUsage ==
    getClaudeMaxUsage(<<[LegacyMaxUsage EXCEPT !.tokensUsed = 700]>>,
                      ThuMorning - HourMs, ThuMorning - HourMs)

\* no call has been made
NoCalls ==
    /\ pc = [p \in Procs |-> "idle"]
    /\ usage = [p \in Procs |-> <<>>]
    /\ stats = [p \in Procs |-> <<>>]
    /\ raw = [p \in Procs |-> <<>>]
    /\ clockReads = [p \in Procs |-> <<>>]
    /\ puts = [p \in Procs |-> <<>>]
    /\ toStore = [p \in Procs |-> <<>>]
    /\ lastRead = <<>>
    /\ nStarted = 0
    /\ nDone = 0
    /\ via = [p \in Procs |-> ""]
    /\ id = [p \in Procs |-> 0]
    /\ response = [p \in Procs |-> <<>>]
    /\ thrown = [p \in Procs |-> ""]
    /\ submitted = <<>>
    /\ lastStats = <<>>
    /\ existing = [p \in Procs |-> <<>>]

Init ==
    /\ clock = ThuMorning
    /\ kvMax \in {Absent, <<LegacyMaxUsage>>, <<WrittenBackMaxUsage>>}
    /\ kvStats = Absent
    /\ kvUsage = <<>>
    /\ kvRecords = <<>>
    /\ bound = TRUE
    /\ NoCalls

\* no call is in flight
Quiet == \A q \in Procs : pc[q] \in {"idle", "done", "failed"}

\* time passes while no request is being served
Tick ==
    /\ Quiet
    /\ \E t \in Times : t > clock /\ clock' = t
    /\ lastRead' = <<>>
    /\ lastStats' = <<>>
    /\ UNCHANGED <<kvMax, kvStats, kvUsage, pc, usage, stats, raw, clockReads,
                   toStore, puts, nStarted, nDone, bound, kvRecords, existing, via, id, response,
                   thrown, submitted>>

\* time passes while a request waits for the key-value store
Wait ==
    /\ ~Quiet
    /\ \E t \in LaterReads(clock) : t > clock /\ clock' = t
    /\ lastRead' = <<>>
    /\ lastStats' = <<>>
    /\ UNCHANGED <<kvMax, kvStats, kvUsage, pc, usage, stats, raw, clockReads,
                   toStore, puts, nStarted, nDone, bound, kvRecords, existing, via, id, response,
                   thrown, submitted>>

\* handleUsageLog lines 9-27: without env.MEMORY the request is answered 500;
\* else the usage object is built and the raw record put under
\* usage:<Date.now()>
HandleUsageLog(p, body) ==
    /\ pc[p] \in {"idle", "done", "failed"}
    /\ nStarted < MaxEvents
    /\ nStarted' = nStarted + 1
    /\ via' = [via EXCEPT ![p] = "POST /usage"]
    /\ stats' = [stats EXCEPT ![p] = <<>>]
    /\ raw' = [raw EXCEPT ![p] = <<>>]
    /\ clockReads' = [clockReads EXCEPT ![p] = <<>>]
    /\ toStore' = [toStore EXCEPT ![p] = <<>>]
    /\ lastRead' = <<>>
    /\ lastStats' = <<>>
    /\ IF ~bound
       THEN /\ response' = [response EXCEPT ![p] =
                               <<[status |-> 500, error |-> "KV not bound"]>>]
            /\ pc' = [pc EXCEPT ![p] = "failed"]
            /\ usage' = [usage EXCEPT ![p] = <<>>]
            /\ puts' = [puts EXCEPT ![p] = <<>>]
            /\ id' = [id EXCEPT ![p] = 0]
            /\ UNCHANGED <<clock, kvUsage, submitted>>
       ELSE /\ \E tStamp \in LaterReads(clock) :
                 LET u == BuildUsage(body, tStamp)
                 IN  /\ kvUsage' = Put(kvUsage, clock, u)
                     /\ usage' = [usage EXCEPT ![p] = <<u>>]
                     /\ clock' = tStamp
            /\ id' = [id EXCEPT ![p] = clock]
            /\ response' = [response EXCEPT ![p] = <<>>]
            /\ pc' = [pc EXCEPT ![p] = "getStats"]
            /\ puts' = [puts EXCEPT ![p] = <<"usage:">>]
            /\ submitted' = Append(submitted, body)
    /\ thrown' = [thrown EXCEPT ![p] = ""]
    /\ UNCHANGED <<kvMax, kvStats, nDone, bound, kvRecords, existing>>

\* updateModelStats lines 15-21: getModelStats has returned; an Opus event
\* goes on to updateClaudeMaxUsage, whose get is issued
GetModelStats(p) ==
    /\ pc[p] = "getStats"
    /\ Parses(kvStats)
    /\ stats' = [stats EXCEPT ![p] =
                    IF kvStats = Absent THEN <<getDefaultModelStats(clock)>> ELSE kvStats]
    /\ pc' = [pc EXCEPT ![p] = IF IsOpus(usage[p][1]) THEN "maxGet" ELSE "putStats"]
    /\ lastRead' = <<>>
    /\ lastStats' = <<>>
    /\ UNCHANGED <<clock, kvMax, kvStats, kvUsage, usage, raw, clockReads,
                   toStore, puts, nStarted, nDone, bound, kvRecords, existing, via, id, response,
                   thrown, submitted>>

\* updateClaudeMaxUsage line 61: the get returns
MaxGet(p) ==
    /\ pc[p] = "maxGet"
    /\ raw' = [raw EXCEPT ![p] = kvMax]
    /\ pc' = [pc EXCEPT ![p] = "maxPut"]
    /\ lastRead' = <<>>
    /\ lastStats' = <<>>
    /\ UNCHANGED <<clock, kvMax, kvStats, kvUsage, usage, stats, clockReads,
                   toStore, puts, nStarted, nDone, bound, kvRecords, existing, via, id, response,
                   thrown, submitted>>

\* MaxPut on the value stored at the time of the put
MaxPutOnCurrentValue(p) ==
    /\ pc[p] = "maxPut"
    /\ Parses(raw[p])
    /\ \E tWeek \in LaterReads(clock) : \E tLast \in LaterReads(tWeek) :
         LET v == updateClaudeMaxUsage(kvMax, usage[p][1].tokens_in,
                                       usage[p][1].tokens_out, clock, tWeek, tLast)
         IN  /\ kvMax' = <<v>>
             /\ toStore' = [toStore EXCEPT ![p] = <<v>>]
             /\ clockReads' = [clockReads EXCEPT ![p] = <<clock, tWeek, tLast>>]
             /\ clock' = tLast
    /\ puts' = [puts EXCEPT ![p] = Append(@, "claude_max_usage")]
    /\ pc' = [pc EXCEPT ![p] = IF via[p] = "updateClaudeMaxUsage" THEN "done" ELSE "putStats"]
    /\ response' = [response EXCEPT ![p] =
                       IF via[p] = "updateClaudeMaxUsage" THEN <<Returned>> ELSE @]
    /\ lastRead' = <<>>
    /\ lastStats' = <<>>
    /\ UNCHANGED <<kvStats, kvUsage, usage, stats, raw, nStarted, nDone, bound, kvRecords, existing, via, id,
                   thrown, submitted>>

\* updateClaudeMaxUsage lines 62-99: the new state is computed and put
MaxPut(p) ==
    /\ pc[p] = "maxPut"
    /\ Parses(raw[p])
    /\ \E tWeek \in LaterReads(clock) : \E tLast \in LaterReads(tWeek) :
         LET v == updateClaudeMaxUsage(raw[p], usage[p][1].tokens_in,
                                       usage[p][1].tokens_out, clock, tWeek, tLast)
         IN  /\ kvMax' = <<v>>
             /\ toStore' = [toStore EXCEPT ![p] = <<v>>]
             /\ clockReads' = [clockReads EXCEPT ![p] = <<clock, tWeek, tLast>>]
             /\ clock' = tLast
    /\ puts' = [puts EXCEPT ![p] = Append(@, "claude_max_usage")]
    /\ pc' = [pc EXCEPT ![p] = IF via[p] = "updateClaudeMaxUsage" THEN "done" ELSE "putStats"]
    /\ response' = [response EXCEPT ![p] =
                       IF via[p] = "updateClaudeMaxUsage" THEN <<Returned>> ELSE @]
    /\ lastRead' = <<>>
    /\ lastStats' = <<>>
    /\ UNCHANGED <<kvStats, kvUsage, usage, stats, raw, nStarted, nDone, bound, kvRecords, existing, via, id,
                   thrown, submitted>>

\* updateModelStats lines 24-78 and handleUsageLog line 30: the statistics
\* are folded and put, the request is answered
PutModelStats(p) ==
    /\ pc[p] = "putStats"
    /\ \E tUpdated \in LaterReads(clock) :
         /\ kvStats' = <<FoldUsage(stats[p][1], usage[p][1], clock, tUpdated)>>
         /\ clock' = tUpdated
    /\ pc' = [pc EXCEPT ![p] = "done"]
    /\ puts' = [puts EXCEPT ![p] = Append(@, "model_stats")]
    /\ nDone' = nDone + 1
    /\ response' = [response EXCEPT ![p] =
                       IF via[p] = "POST /usage"
                       THEN <<[status |-> 200, logged |-> TRUE, id |-> id[p]]>>
                       ELSE <<Returned>>]
    /\ lastRead' = <<>>
    /\ lastStats' = <<>>
    /\ UNCHANGED <<kvMax, kvUsage, usage, stats, raw, clockReads, toStore, nStarted,
                   bound, kvRecords, existing, via, id, thrown, submitted>>

\* ReadMaxUsage that persists the reconciled state
ReadMaxUsageWritesBack ==
    /\ \E tWeek \in LaterReads(clock) :
         /\ lastRead' = <<[at |-> clock, data |-> kvMax,
                           result |-> IF bound THEN getClaudeMaxUsage(kvMax, clock, tWeek)
                                      ELSE getDefaultMaxUsage(clock, tWeek)]>>
         /\ kvMax' = <<getClaudeMaxUsage(kvMax, clock, tWeek)>>
         /\ clock' = tWeek
    /\ lastStats' = <<>>
    /\ UNCHANGED <<kvStats, kvUsage, pc, usage, stats, raw, clockReads,
                   toStore, puts, nStarted, nDone, bound, kvRecords, existing, via, id, response,
                   thrown, submitted>>

\* GET /dashboard (index.js lines 78-85): getClaudeMaxUsage
ReadMaxUsage ==
    /\ \E tWeek \in LaterReads(clock) :
         /\ lastRead' = <<[at |-> clock, data |-> kvMax,
                           result |-> IF bound THEN getClaudeMaxUsage(kvMax, clock, tWeek)
                                      ELSE getDefaultMaxUsage(clock, tWeek)]>>
         /\ clock' = tWeek
    /\ lastStats' = <<>>
    /\ UNCHANGED <<kvMax, kvStats, kvUsage, pc, usage, stats, raw, clockReads,
                   toStore, puts, nStarted, nDone, bound, kvRecords, existing, via, id, response,
                   thrown, submitted>>

Step(p) ==
    \/ GetModelStats(p)
    \/ MaxGet(p)
    \/ MaxPut(p)
    \/ PutModelStats(p)

\* requests are served one after the other
Next ==
    \/ Tick
    \/ Wait
    \/ ReadMaxUsage
    \/ \E body \in Bodies : HandleUsageLog(1, body)
    \/ Step(1)

Spec == Init /\ [][Next]_vars

\* requests overlap, on a fresh store
InitConcurrent == Init /\ kvMax = Absent

ConcurrentBodies ==
    {b \in Bodies : Has(b, "provider") /\ b.provider \in {"anthropic", "gemini", "constructor"}}

NextConcurrent ==
    \/ Tick
    \/ Wait
    \/ ReadMaxUsage
    \/ \E p \in Procs, body \in ConcurrentBodies : HandleUsageLog(p, body)
    \/ \E p \in Procs : Step(p)

SpecConcurrent == InitConcurrent /\ [][NextConcurrent]_vars

\* events that name a member of Object.prototype as provider or as model,
\* and an Opus event, one after the other on a fresh store
PrototypeKeyBodies ==
    { [provider |-> "constructor", model |-> "gemini-pro", tokens_in |-> 10,
       tokens_out |-> 10, task_type |-> "general"],
      [provider |-> "gemini", model |-> "constructor", tokens_in |-> 10,
       tokens_out |-> 10, task_type |-> "general"],
      [provider |-> "anthropic", model |-> "claude-opus-4", tokens_in |-> 1000,
       tokens_out |-> 500, cost |-> Number(50000, 10 ^ 6), task_type |-> "planning"] }

NextPrototypeKeys ==
    \/ Tick
    \/ Wait
    \/ ReadMaxUsage
    \/ \E body \in PrototypeKeyBodies : HandleUsageLog(1, body)
    \/ Step(1)

SpecPrototypeKeys == InitConcurrent /\ [][NextPrototypeKeys]_vars

----------------------------------------------------------------------------
(* The environment fails: env.MEMORY is not bound, a get or a put throws, a *)
(* stored text is no JSON; and the services are called directly.            *)

\* Throws that takes back the raw record of the request
ThrowsAndRollsBack(p, what, logged) ==
    /\ pc' = [pc EXCEPT ![p] = "failed"]
    /\ thrown' = [thrown EXCEPT ![p] = what]
    /\ response' = [response EXCEPT ![p] =
                       IF via[p] = "POST /usage" /\ logged
                       THEN <<[status |-> 500, error |-> what]>>
                       ELSE <<Raised>>]
    /\ puts' = [puts EXCEPT ![p] =
                   IF via[p] = "POST /usage" /\ logged THEN Append(@, "log:error:") ELSE @]
    /\ lastRead' = <<>>
    /\ lastStats' = <<>>
    /\ kvUsage' = [k \in DOMAIN kvUsage \ {id[p]} |-> kvUsage[k]]
    /\ UNCHANGED <<clock, kvMax, kvStats, usage, stats, raw, clockReads,
                   toStore, nStarted, nDone, bound, kvRecords, existing, via, id, submitted>>

\* an exception ends call p.  One that leaves handleUsageLog reaches the catch
\* of fetch (index.js lines 54-59), which has log put a log:error:<ms> record
\* and answers 500; when that put throws too (logged is FALSE) fetch itself
\* raises.  A service that was called directly raises it to its caller.
Throws(p, what, logged) ==
    /\ pc' = [pc EXCEPT ![p] = "failed"]
    /\ thrown' = [thrown EXCEPT ![p] = what]
    /\ response' = [response EXCEPT ![p] =
                       IF via[p] = "POST /usage" /\ logged
                       THEN <<[status |-> 500, error |-> what]>>
                       ELSE <<Raised>>]
    /\ puts' = [puts EXCEPT ![p] =
                   IF via[p] = "POST /usage" /\ logged THEN Append(@, "log:error:") ELSE @]
    /\ lastRead' = <<>>
    /\ lastStats' = <<>>
    /\ UNCHANGED <<clock, kvMax, kvStats, kvUsage, usage, stats, raw, clockReads,
                   toStore, nStarted, nDone, bound, kvRecords, existing, via, id, submitted>>

\* a put of model_stats whose failure is answered by putting again
KvThrowsAndPutIsRetried(p) ==
    /\ pc[p] = "putStats"
    /\ Len(puts[p]) < 2 * MaxEvents + 4
    /\ kvStats' = <<FoldUsage(stats[p][1], usage[p][1], clock, clock)>>
    /\ puts' = [puts EXCEPT ![p] = Append(@, "model_stats")]
    /\ lastRead' = <<>>
    /\ lastStats' = <<>>
    /\ UNCHANGED <<clock, kvMax, kvUsage, pc, usage, stats, raw, clockReads, toStore,
                   nStarted, nDone, bound, kvRecords, existing, via, id, response, thrown, submitted>>

\* the get or put that call p is about to await throws and changes nothing
KvThrows(p) ==
    /\ pc[p] \in {"getStats", "maxGet", "maxPut", "putStats"}
    /\ \E logged \in BOOLEAN : Throws(p, "KV", logged)

\* JSON.parse throws on the text the call got: model-stats.js line 11,
\* claude-max.js line 65
ParseThrows(p) ==
    /\ \/ pc[p] = "getStats" /\ ~Parses(kvStats)
       \/ pc[p] = "maxPut" /\ ~Parses(raw[p])
    /\ Throws(p, "JSON.parse", TRUE)

\* a call of a service function begins
Call(p, fn, body) ==
    /\ pc[p] \in {"idle", "done", "failed"}
    /\ nStarted < MaxEvents
    /\ nStarted' = nStarted + 1
    /\ via' = [via EXCEPT ![p] = fn]
    /\ usage' = [usage EXCEPT ![p] = <<BuildUsage(body, clock)>>]
    /\ stats' = [stats EXCEPT ![p] = <<>>]
    /\ raw' = [raw EXCEPT ![p] = <<>>]
    /\ clockReads' = [clockReads EXCEPT ![p] = <<>>]
    /\ toStore' = [toStore EXCEPT ![p] = <<>>]
    /\ puts' = [puts EXCEPT ![p] = <<>>]
    /\ id' = [id EXCEPT ![p] = 0]
    /\ thrown' = [thrown EXCEPT ![p] = ""]
    /\ lastRead' = <<>>
    /\ lastStats' = <<>>
    /\ UNCHANGED <<clock, kvMax, kvStats, kvUsage, nDone, bound, kvRecords, existing, submitted>>

\* updateModelStats without the return of line 15
CallUpdateModelStatsUnguarded(p, body) ==
    /\ Call(p, "updateModelStats", body)
    /\ pc' = [pc EXCEPT ![p] = "getStats"]
    /\ response' = [response EXCEPT ![p] = <<>>]

\* updateModelStats(env, usage) is called (model-stats.js lines 14-17):
\* without env.MEMORY it returns at once
CallUpdateModelStats(p, body) ==
    /\ Call(p, "updateModelStats", body)
    /\ pc' = [pc EXCEPT ![p] = IF bound THEN "getStats" ELSE "done"]
    /\ response' = [response EXCEPT ![p] = IF bound THEN <<>> ELSE <<Returned>>]

\* updateClaudeMaxUsage(env, tokensIn, tokensOut) is called with the tokens
\* of an event (claude-max.js lines 55-61): without env.MEMORY it returns at
\* once
CallUpdateClaudeMaxUsage(p, body) ==
    /\ Call(p, "updateClaudeMaxUsage", body)
    /\ pc' = [pc EXCEPT ![p] = IF bound THEN "maxGet" ELSE "done"]
    /\ response' = [response EXCEPT ![p] = IF bound THEN <<>> ELSE <<Returned>>]

\* GET /usage/stats (handleUsageStats, getModelStats): the stored statistics,
\* the default ones when none are stored or env.MEMORY is not bound, and an
\* exception when the stored text does not parse
ReadModelStats ==
    /\ lastStats' =
           <<[data |-> kvStats,
              outcome |-> IF ~bound \/ kvStats = Absent THEN <<getDefaultModelStats(clock)>>
                          ELSE IF Parses(kvStats) THEN kvStats
                          ELSE <<>>]>>
    /\ lastRead' = <<>>
    /\ UNCHANGED <<clock, kvMax, kvStats, kvUsage, pc, usage, stats, raw, clockReads,
                   toStore, puts, nStarted, nDone, bound, kvRecords, existing, via, id, response,
                   thrown, submitted>>

\* a Time-Window record whose windowStart is 0
ZeroStartMaxUsage == [LegacyMaxUsage EXCEPT !.windowStart = 0]

\* PUT /memory/<key> (handleMemoryPut): a client stores a text of its own
\* under one of the two keys, a text that is no JSON or, under
\* claude_max_usage, the JSON text of a record
HandleMemoryPut ==
    /\ bound
    /\ \/ /\ \E text \in {Malformed, <<ZeroStartMaxUsage>>} :
                kvMax # text /\ kvMax' = text
          /\ UNCHANGED kvStats
       \/ kvStats # Malformed /\ kvStats' = Malformed /\ UNCHANGED kvMax
    /\ lastRead' = <<>>
    /\ lastStats' = <<>>
    /\ UNCHANGED <<clock, kvUsage, pc, usage, stats, raw, clockReads,
                   toStore, puts, nStarted, nDone, bound, kvRecords, existing, via, id, response,
                   thrown, submitted>>

InitFaults ==
    /\ clock = ThuMorning
    /\ kvMax \in {Absent, <<LegacyMaxUsage>>}
    /\ kvStats = Absent
    /\ kvUsage = <<>>
    /\ kvRecords = <<>>
    /\ bound \in BOOLEAN
    /\ NoCalls

FaultBodies == {b \in Bodies : Has(b, "cost") /\ Has(b, "task_type")}

NextFaults ==
    \/ ReadMaxUsage
    \/ ReadModelStats
    \/ HandleMemoryPut
    \/ \E body \in FaultBodies :
           \/ HandleUsageLog(1, body)
           \/ CallUpdateModelStats(1, body)
           \/ CallUpdateClaudeMaxUsage(1, body)
    \/ Step(1)
    \/ KvThrows(1)
    \/ ParseThrows(1)

SpecFaults == InitFaults /\ [][NextFaults]_vars

----------------------------------------------------------------------------
(* GET /usage/live *)

\* the limit handleUsageLive passes to env.MEMORY.list
LiveLimit == 10

\* the decimal digits of n, as `usage:${Date.now()}` writes them
RECURSIVE Decimal(_)
Decimal(n) == IF n < 10 THEN <<n>> ELSE Append(Decimal(n \div 10), n % 10)

\* text a sorts before text b: at the first place they differ a has the
\* smaller character, or a is a proper prefix of b
LexLess(a, b) ==
    \/ \E i \in 1..Len(a) :
          /\ i <= Len(b)
          /\ a[i] < b[i]
          /\ \A j \in 1..(i - 1) : a[j] = b[j]
    \/ Len(a) < Len(b) /\ \A j \in 1..Len(a) : a[j] = b[j]

\* the keys of set S in the order env.MEMORY.list returns them: sorted by the
\* text of the key, smallest first (they all begin with 'usage:')
RECURSIVE Listed(_)
Listed(S) ==
    IF S = {} THEN <<>>
    ELSE LET k == CHOOSE k \in S : \A o \in S \ {k} : LexLess(Decimal(k), Decimal(o))
         IN  <<k>> \o Listed(S \ {k})

\* env.MEMORY.list({prefix: 'usage:', limit}): the first limit keys
list(store, limit) ==
    LET keys == Listed(DOMAIN store)
    IN  SubSeq(keys, 1, IF Len(keys) < limit THEN Len(keys) ELSE limit)

\* Array.prototype.reverse
reverse(a) == [i \in 1..Len(a) |-> a[Len(a) + 1 - i]]

\* handleUsageLive: the values of the listed keys, reversed
handleUsageLive(store) ==
    LET keys == list(store, LiveLimit)
    IN  reverse([i \in 1..Len(keys) |-> store[keys[i]]])

\* GET /usage/live is served at once
HandleUsageLive(p) ==
    /\ pc[p] \in {"idle", "done", "failed"}
    /\ response[p] = <<>>
    /\ via' = [via EXCEPT ![p] = "GET /usage/live"]
    /\ pc' = [pc EXCEPT ![p] = IF bound THEN "done" ELSE "failed"]
    /\ response' = [response EXCEPT ![p] =
                       IF bound THEN <<[status |-> 200, usage |-> handleUsageLive(kvUsage)]>>
                       ELSE <<[status |-> 500, error |-> "KV not bound"]>>]
    /\ UNCHANGED <<clock, kvMax, kvStats, kvUsage, usage, stats, raw, clockReads,
                   toStore, puts, lastRead, nStarted, nDone, bound, kvRecords, existing, id, thrown,
                   submitted, lastStats>>

\* the instants at which the stored events were logged
LiveKeys == {ThuMorning + i : i \in 0..(MaxStored - 1)}

\* some events have been logged, each under the instant of its request
InitLive ==
    /\ clock = ThuMorning + MaxStored
    /\ kvMax = Absent
    /\ kvStats = Absent
    /\ bound \in BOOLEAN
    /\ kvRecords = <<>>
    /\ NoCalls
    /\ \E S \in SUBSET LiveKeys :
          kvUsage = [k \in S |-> BuildUsage([provider |-> "gemini", model |-> "gemini-pro"], k)]

NextLive == \E p \in Procs : HandleUsageLive(p)

SpecLive == InitLive /\ [][NextLive]_vars

----------------------------------------------------------------------------
(* handlers/webhooks.js (tasks) and handlers/notes.js *)

\* the routes that update and delete a record, and the kind of key of each
UpdateRoutes == [task |-> "PUT /tasks/:id", note |-> "PUT /notes/:id"]
DeleteRoutes == [task |-> "DELETE /tasks/:id", note |-> "DELETE /notes/:id"]

\* the kind of key request p addresses
KindOf(p) == IF via[p] \in {UpdateRoutes.task, DeleteRoutes.task} THEN "task" ELSE "note"

\* the key request p addresses: 'task:<ms>' or 'note:<ms>'
KeyOf(p) == <<KindOf(p), id[p]>>

\* the store without key k
Without(store, k) == [j \in DOMAIN store \ {k} |-> store[j]]

\* { ...record, ...updates, updated: new Date().toISOString() }
Merged(record, updates, tNow) ==
    [f \in DOMAIN record \cup DOMAIN updates \cup {"updated"} |->
        IF f = "updated" THEN ISO(tNow)
        ELSE IF f \in DOMAIN updates THEN updates[f]
        ELSE record[f]]

\* the record POST /tasks or POST /notes stored at instant t
CreatedRecord(kind, t) ==
    IF kind = "task"
    THEN [title |-> "a", description |-> "", status |-> "pending", priority |-> "normal",
          created |-> ISO(t), updated |-> ISO(t)]
    ELSE [title |-> "Untitled", content |-> "c", tags |-> <<>>,
          created |-> ISO(t), updated |-> ISO(t)]

\* the body of the update requests of the model
Updates == [title |-> "b"]

\* handleTaskUpdate lines 92-96 and handleNoteUpdate lines 38-42: the get
\* is answered; a missing record ends the request with 404
HandleUpdate(p, kind, ms) ==
    /\ pc[p] \in {"idle", "done", "failed"}
    /\ via' = [via EXCEPT ![p] = UpdateRoutes[kind]]
    /\ id' = [id EXCEPT ![p] = ms]
    /\ puts' = [puts EXCEPT ![p] = <<>>]
    /\ thrown' = [thrown EXCEPT ![p] = ""]
    /\ IF ~bound
       THEN /\ existing' = [existing EXCEPT ![p] = <<>>]
            /\ response' = [response EXCEPT ![p] =
                               <<[status |-> 500, error |-> "KV not bound"]>>]
            /\ pc' = [pc EXCEPT ![p] = "failed"]
       ELSE IF <<kind, ms>> \notin DOMAIN kvRecords
       THEN /\ existing' = [existing EXCEPT ![p] = <<>>]
            /\ response' = [response EXCEPT ![p] =
                               <<[status |-> 404,
                                  error |-> IF kind = "task" THEN "Task not found"
                                            ELSE "Note not found"]>>]
            /\ pc' = [pc EXCEPT ![p] = "failed"]
       ELSE /\ existing' = [existing EXCEPT ![p] = <<kvRecords[<<kind, ms>>]>>]
            /\ response' = [response EXCEPT ![p] = <<>>]
            /\ pc' = [pc EXCEPT ![p] = "updatePut"]
    /\ UNCHANGED <<clock, kvMax, kvStats, kvUsage, usage, stats, raw, clockReads,
                   toStore, lastRead, nStarted, nDone, bound, submitted, lastStats,
                   kvRecords>>

\* handleTaskUpdate lines 97-101 and handleNoteUpdate lines 43-47: after
\* request.json() the merged record is put, an update of a task is logged,
\* and the request is answered
UpdatePut(p) ==
    /\ pc[p] = "updatePut"
    /\ kvRecords' = Put(kvRecords, KeyOf(p), Merged(existing[p][1], Updates, clock))
    /\ puts' = [puts EXCEPT ![p] = IF KindOf(p) = "task" THEN <<"task:", "log:task:">>
                                  ELSE <<"note:">>]
    /\ response' = [response EXCEPT ![p] = <<[status |-> 200, updated |-> TRUE, id |-> id[p]]>>]
    /\ pc' = [pc EXCEPT ![p] = "done"]
    /\ UNCHANGED <<clock, kvMax, kvStats, kvUsage, usage, stats, raw, clockReads,
                   toStore, lastRead, nStarted, nDone, bound, via, id, thrown,
                   submitted, lastStats, existing>>

\* handleTaskDelete and handleNoteDelete: the key is deleted, whether or
\* not it was stored, and the deletion of a task is logged
HandleDelete(p, kind, ms) ==
    /\ pc[p] \in {"idle", "done", "failed"}
    /\ via' = [via EXCEPT ![p] = DeleteRoutes[kind]]
    /\ id' = [id EXCEPT ![p] = ms]
    /\ puts' = [puts EXCEPT ![p] = IF bound /\ kind = "task" THEN <<"log:task:">> ELSE <<>>]
    /\ thrown' = [thrown EXCEPT ![p] = ""]
    /\ existing' = [existing EXCEPT ![p] = <<>>]
    /\ kvRecords' = IF bound THEN Without(kvRecords, <<kind, ms>>) ELSE kvRecords
    /\ response' = [response EXCEPT ![p] =
                       IF bound THEN <<[status |-> 200, deleted |-> TRUE, id |-> ms]>>
                       ELSE <<[status |-> 500, error |-> "KV not bound"]>>]
    /\ pc' = [pc EXCEPT ![p] = IF bound THEN "done" ELSE "failed"]
    /\ UNCHANGED <<clock, kvMax, kvStats, kvUsage, usage, stats, raw, clockReads,
                   toStore, lastRead, nStarted, nDone, bound, submitted, lastStats>>

\* the instants at which the records of the model were created
CreatedAt == {ThuMorning - HourMs, ThuMorning - 1}

\* the keys of the model
RecordKeys == {"task", "note"} \X CreatedAt

\* some tasks and notes were created before
InitRecords ==
    /\ clock = ThuMorning
    /\ kvMax = Absent
    /\ kvStats = Absent
    /\ kvUsage = <<>>
    /\ bound \in BOOLEAN
    /\ NoCalls
    /\ \E S \in SUBSET RecordKeys : kvRecords = [k \in S |-> CreatedRecord(k[1], k[2])]

NextRecords ==
    \E p \in Procs :
        \/ \E k \in RecordKeys : HandleUpdate(p, k[1], k[2])
        \/ UpdatePut(p)
        \/ \E k \in RecordKeys : HandleDelete(p, k[1], k[2])

SpecRecords == InitRecords /\ [][NextRecords]_vars

----------------------------------------------------------------------------
(* Helpers of the properties *)

RECURSIVE SumRequestsOver(_, _)
SumRequestsOver(map, keys) ==
    IF keys = {} THEN 0
    ELSE LET k == CHOOSE x \in keys : TRUE
         IN  map[k].requests + SumRequestsOver(map, keys \ {k})

\* the sum of map[*].requests
SumRequests(map) == SumRequestsOver(map, DOMAIN map)

\* the requests whose updateClaudeMaxUsage call has returned
Recorded == {p \in Procs : toStore[p] # <<>>}

\* tokensIn + tokensOut of request p
TotalTokens(p) == usage[p][1].tokens_in + usage[p][1].tokens_out

\* the Mondays 00:00 UTC around the instants of the model, written out
Mondays == {MondayJan5 - WeekMs, MondayJan5, MondayJan12}

\* the Monday 00:00 UTC of the week that holds instant t
MondayOf(t) == CHOOSE m \in Mondays : m <= t /\ t < m + WeekMs

\* the instant request p took for now, and the one it took for the week start
NowOf(p) == clockReads[p][1]
WeekClockOf(p) == clockReads[p][2]

\* request p read a record whose 5h window had expired
SawExpiredWindow(p) ==
    raw[p] # Absent /\ NowOf(p) - raw[p][1].windowStart > windowDurationMs

\* request p read a record whose weekStart predates the current Monday
SawOldWeek(p) ==
    /\ raw[p] # Absent
    /\ Has(raw[p][1], "weekStart")
    /\ raw[p][1].weekStart < MondayOf(WeekClockOf(p))

\* the events that are Anthropic Opus events, written out
ExpectedOpus(u) == u.provider = "anthropic" /\ u.model \in {"claude-opus-4", "Claude-OPUS"}

----------------------------------------------------------------------------
(* C1 *)

\* C1: in every stored model_stats record, built from an absent record,
\* totals.requests equals the sum of providers[*].requests, the sum of
\* models[*].requests and the sum of task_types[*].requests.
C1_RequestSumsAgree ==
    kvStats # Absent =>
        /\ SumRequests(kvStats[1].providers) = kvStats[1].totals.requests
        /\ SumRequests(kvStats[1].models) = kvStats[1].totals.requests
        /\ SumRequests(kvStats[1].task_types) = kvStats[1].totals.requests

----------------------------------------------------------------------------
(* C2 *)

\* C2: starting from an absent model_stats record, after N record calls made
\* one after the other the stored totals.requests equals N.
C2_TotalsCountCalls ==
    /\ nDone = 0 => kvStats = Absent
    /\ nDone > 0 => kvStats # Absent /\ kvStats[1].totals.requests = nDone

C2_Witness ==
    /\ nDone = 2
    /\ kvStats # Absent
    /\ kvStats[1].totals.requests = 2
    /\ kvStats[1].totals.tokens_in > 0

----------------------------------------------------------------------------
(* C3 *)

\* C3: a record call that reads a state with now - windowStart greater than
\* windowDurationMs stores tokensUsed = tokensIn + tokensOut, sessions = 1
\* and windowStart = now.
C3_ExpiredWindowRestarts ==
    \A p \in Recorded :
        SawExpiredWindow(p) =>
            /\ toStore[p][1].tokensUsed = TotalTokens(p)
            /\ toStore[p][1].sessions = 1
            /\ toStore[p][1].windowStart = NowOf(p)

C3_Witness ==
    \E p \in Recorded :
        /\ SawExpiredWindow(p)
        /\ raw[p][1].tokensUsed > 0
        /\ raw[p][1].sessions > 1
        /\ TotalTokens(p) > 0
        /\ kvMax = toStore[p]

----------------------------------------------------------------------------
(* C4 *)

\* C4: a record call that reads a weekStart older than the Monday 00:00 UTC
\* of the current week stores weeklyTokensUsed = tokensIn + tokensOut of the
\* new event and weekStart = that Monday.
C4_OldWeekRestarts ==
    \A p \in Recorded :
        SawOldWeek(p) =>
            /\ toStore[p][1].weeklyTokensUsed = TotalTokens(p)
            /\ toStore[p][1].weekStart = MondayOf(WeekClockOf(p))

\* the stored weekStart is two weeks old
C4_Witness ==
    \E p \in Recorded :
        /\ SawOldWeek(p)
        /\ raw[p][1].weekStart = MondayOf(WeekClockOf(p)) - 2 * WeekMs
        /\ raw[p][1].weeklyTokensUsed > 0
        /\ TotalTokens(p) > 0
        /\ kvMax = toStore[p]

----------------------------------------------------------------------------
(* C5 *)

\* C5: sessions counts the record calls since the last window reset: a call
\* that finds the window expired (or no record) stores sessions = 1, any
\* other call adds 1 to sessions and its tokens to tokensUsed, also when it
\* observes a week rollover, which resets weeklyTokensUsed alone.
C5_SessionsFollowWindow ==
    \A p \in Recorded :
        /\ raw[p] = Absent \/ SawExpiredWindow(p) => toStore[p][1].sessions = 1
        /\ raw[p] # Absent /\ ~SawExpiredWindow(p) =>
               /\ toStore[p][1].sessions = raw[p][1].sessions + 1
               /\ toStore[p][1].tokensUsed = raw[p][1].tokensUsed + TotalTokens(p)
               /\ toStore[p][1].windowStart = raw[p][1].windowStart
        /\ SawOldWeek(p) => toStore[p][1].weeklyTokensUsed = TotalTokens(p)

\* a week rollover inside a running window
C5_Witness ==
    \E p \in Recorded :
        /\ SawOldWeek(p)
        /\ ~SawExpiredWindow(p)
        /\ raw[p][1].weeklyTokensUsed > 0
        /\ toStore[p][1].sessions = 2
        /\ toStore[p][1].tokensUsed > toStore[p][1].weeklyTokensUsed

----------------------------------------------------------------------------
(* C6 *)

\* C6: a POST /usage request puts claude_max_usage if and only if its event
\* has provider "anthropic" and a model that contains "opus" in any case; any
\* other request puts its raw record and model_stats only, and the value
\* under claude_max_usage changes in no step but the put of an Opus request.
C6_Keys ==
    \A p \in Procs :
        pc[p] = "done" =>
            /\ ExpectedOpus(usage[p][1]) =>
                   /\ puts[p] = <<"usage:", "claude_max_usage", "model_stats">>
                   /\ toStore[p] # <<>>
            /\ ~ExpectedOpus(usage[p][1]) =>
                   /\ puts[p] = <<"usage:", "model_stats">>
                   /\ toStore[p] = <<>>

C6_Frame ==
    kvMax' # kvMax =>
        \E p \in Procs :
            /\ pc[p] = "maxPut"
            /\ pc'[p] = "putStats"
            /\ ExpectedOpus(usage[p][1])
            /\ kvMax' = toStore'[p]

C6_OnlyOpusWritesWindow == [](C6_Keys) /\ [][C6_Frame]_vars

\* a gemini event was recorded beside an untouched window record
C6_Witness ==
    \E p \in Procs :
        /\ pc[p] = "done"
        /\ usage[p][1].provider = "gemini"
        /\ puts[p] = <<"usage:", "model_stats">>
        /\ kvStats # Absent
        /\ kvStats[1].providers["gemini"].requests = 1
        /\ kvMax = <<LegacyMaxUsage>>

----------------------------------------------------------------------------
(* C7 *)

\* every request was started at most once, so that Recorded and pc tell of
\* all the calls made so far
NoRestart == nStarted = Cardinality({p \in Procs : pc[p] # "idle"})

\* C7: the get and the put of record are not atomic: when two record calls
\* that got the same stored state have both completed, the stored sessions
\* count (and likewise totals.requests of model_stats) is smaller than the
\* number of completed calls: the later put has overwritten the earlier one.
C7_LaterPutOverwrites ==
    NoRestart =>
        \A p, q \in Procs :
            p # q =>
                /\ p \in Recorded /\ q \in Recorded /\ raw[p] = raw[q] =>
                       /\ kvMax[1].sessions < Cardinality(Recorded)
                       /\ \E w \in Recorded : kvMax = toStore[w]
                /\ ( /\ pc[p] = "done" /\ pc[q] = "done"
                     /\ stats[p][1].totals.requests = stats[q][1].totals.requests ) =>
                       kvStats[1].totals.requests < nDone

\* two Opus requests have completed on a fresh store and one is stored
C7_Witness ==
    \E p, q \in Procs :
        /\ p # q
        /\ pc[p] = "done" /\ pc[q] = "done"
        /\ p \in Recorded /\ q \in Recorded
        /\ raw[p] = Absent /\ raw[q] = Absent
        /\ TotalTokens(p) # TotalTokens(q)
        /\ kvMax[1].sessions = 1
        /\ kvMax[1].tokensUsed = TotalTokens(q)
        /\ kvMax[1].weeklyTokensUsed = TotalTokens(q)
        /\ nDone = 2
        /\ kvStats[1].totals.requests = 1
        /\ kvStats[1].totals.tokens_in = usage[q][1].tokens_in

----------------------------------------------------------------------------
(* C8 *)

\* C8: getClaudeMaxUsage writes nothing: the value under claude_max_usage
\* after a read is the value the read got, and an absent record stays absent.
C8_ReadWritesNothing == lastRead # <<>> => kvMax = lastRead[1].data

\* a read that found the window expired and the week changed
C8_Witness ==
    /\ lastRead # <<>>
    /\ lastRead[1].data # Absent
    /\ lastRead[1].data[1].tokensUsed > 0
    /\ lastRead[1].result.tokensUsed = 0
    /\ Has(lastRead[1].data[1], "weekStart")
    /\ lastRead[1].result.weekStart > lastRead[1].data[1].weekStart
    /\ kvMax = lastRead[1].data

----------------------------------------------------------------------------
(* C9 *)

StoredFieldNames ==
    {"tokensUsed", "tokensLimit", "windowStart", "sessions", "lastSession",
     "weeklyTokensUsed", "weeklyTokensLimit", "weekStart"}

\* C9: the value a record call puts under claude_max_usage has exactly the
\* eight stored fields; timeRemainingMs, timeRemainingHours and
\* daysUntilWeekReset are never in it.
C9_OnlyStoredFields == \A p \in Recorded : DOMAIN toStore[p][1] = StoredFieldNames

\* the record read held derived fields, the record written does not
C9_Witness ==
    \E p \in Recorded :
        /\ raw[p] # Absent
        /\ {"timeRemainingMs", "timeRemainingHours", "daysUntilWeekReset"} \subseteq DOMAIN raw[p][1]
        /\ kvMax = toStore[p]
        /\ DOMAIN kvMax[1] = StoredFieldNames

----------------------------------------------------------------------------
(* C10 *)

\* C10: every read returns a daysUntilWeekReset that is an integer in 1..7,
\* for a persisted record and for an absent one.
C10_DaysInRange ==
    lastRead # <<>> =>
        /\ Has(lastRead[1].result, "daysUntilWeekReset")
        /\ lastRead[1].result.daysUntilWeekReset \in 1..7

----------------------------------------------------------------------------
(* C11 *)

\* totals.savings of a stored model_stats value, 0 while nothing is stored
SavingsOf(kv) == IF kv = Absent THEN <<>> ELSE kv[1].totals.savings

C11_Step == kvStats' # kvStats => ~LessBits(SavingsOf(kvStats'), SavingsOf(kvStats))

\* C11: over any sequence of recorded events with non-negative cost, served
\* one after the other, the stored totals.savings never decreases (and so,
\* starting at 0, is never negative).
C11_SavingsNeverDecrease == [][C11_Step]_vars

\* the second event cost more than the reference and left the savings of the
\* first as they were
C11_Witness ==
    /\ nDone = 2
    /\ pc[1] = "done"
    /\ usage[1][1].model = "claude-sonnet"
    /\ LessBits(opusCost(usage[1][1].tokens_in, usage[1][1].tokens_out), usage[1][1].cost)
    /\ SavingsOf(kvStats) # <<>>
    /\ SavingsOf(kvStats) = stats[1][1].totals.savings

----------------------------------------------------------------------------
(* C12 *)

\* the costs of the events of the model in millionths of a dollar, as the
\* request bodies spell them
CostTexts == [c \in {0, 12000, 50000} |-> Number(c, 10 ^ 6)]

\* the decimal, in millionths, that was parsed into the Number x
MicroOf(x) == CHOOSE c \in DOMAIN CostTexts : CostTexts[c] = x

\* max(0, (tokens_in * 0.015 + tokens_out * 0.075) / 1000 - cost) in exact
\* decimal arithmetic, in millionths of a dollar
ExactSaved(u) ==
    Max(0, u.tokens_in * opusCostIn + u.tokens_out * opusCostOut - MicroOf(u.cost))

\* | a - b |
AbsDiff(a, b) == IF LessBits(a, b) THEN SubBits(b, a) ELSE SubBits(a, b)

\* the Number new is less than 2^-30 millionths of a dollar (10^-15 dollars)
\* away from the Number old plus micro millionths of a dollar
AddedWithinRounding(new, old, micro) ==
    LessBits(AbsDiff(MulNat(new, 10 ^ 6),
                     AddBits(MulNat(old, 10 ^ 6), ShiftLeft(FromNat(micro), FracBits))),
             ShiftLeft(<<1>>, FracBits - 30))

\* the first request was the event tokens_in = 1000, tokens_out = 500,
\* cost = 0.05 and has been recorded against a fresh state
ExampleRecorded ==
    /\ nDone = 1
    /\ pc[1] = "done"
    /\ usage[1][1].tokens_in = 1000
    /\ usage[1][1].tokens_out = 500
    /\ usage[1][1].cost = CostTexts[50000]

\* the Number 0.0025
QuarterCent == Number(2500, 10 ^ 6)

C12_Step ==
    nDone' # nDone =>
        AddedWithinRounding(SavingsOf(kvStats'), SavingsOf(kvStats), ExactSaved(usage[1][1]))

C12_Example ==
    ExampleRecorded =>
        /\ LessBits(SavingsOf(kvStats), QuarterCent)
        /\ SubBits(QuarterCent, SavingsOf(kvStats))
               = ShiftLeft(FromNat(11), FracBits - 61)

----------------------------------------------------------------------------
(* C13 *)

\* the first request was the event {provider "anthropic", model
\* "claude-opus-4", tokens_in 1000, tokens_out 500, task_type "planning"}, it
\* found neither model_stats nor claude_max_usage, and it has been recorded
ScenarioRecorded ==
    /\ nDone = 1
    /\ pc[1] = "done"
    /\ usage[1][1].provider = "anthropic"
    /\ usage[1][1].model = "claude-opus-4"
    /\ usage[1][1].tokens_in = 1000
    /\ usage[1][1].tokens_out = 500
    /\ usage[1][1].task_type = "planning"
    /\ raw[1] = Absent

\* C13: recording the scenario event against absent model_stats and absent
\* claude_max_usage stores models["claude-opus-4"].requests = 1,
\* model_task_matrix["claude-opus-4"]["planning"] = 1 and a window state with
\* tokensUsed = 1500 and sessions = 1.
C13_Scenario ==
    ScenarioRecorded =>
        /\ kvStats # Absent
        /\ Has(kvStats[1].models, "claude-opus-4")
        /\ kvStats[1].models["claude-opus-4"].requests = 1
        /\ Has(kvStats[1].model_task_matrix, "claude-opus-4")
        /\ Has(kvStats[1].model_task_matrix["claude-opus-4"], "planning")
        /\ kvStats[1].model_task_matrix["claude-opus-4"]["planning"] = 1
        /\ kvMax # Absent
        /\ kvMax[1].tokensUsed = 1500
        /\ kvMax[1].sessions = 1

C13_Witness ==
    /\ ScenarioRecorded
    /\ puts[1] = <<"usage:", "claude_max_usage", "model_stats">>
    /\ kvStats[1].totals.requests = 1
    /\ kvMax[1].weeklyTokensUsed = 1500

----------------------------------------------------------------------------
(* C14 *)

\* the same body was submitted twice in succession on a fresh store and both
\* submissions have been recorded; stats[1] is what the second one read, the
\* record after the first
SubmittedTwice ==
    /\ nDone = 2
    /\ pc[1] = "done"
    /\ Len(submitted) = 2
    /\ submitted[1] = submitted[2]

\* counter y is the double of counter x in requests and tokens
Doubled(y, x) ==
    /\ x.requests > 0
    /\ y.requests = 2 * x.requests
    /\ y.tokens_in = 2 * x.tokens_in
    /\ y.tokens_out = 2 * x.tokens_out

\* C14: record does no deduplication: after an identical event is submitted
\* twice from fresh state, totals.requests, totals.tokens_in and
\* totals.tokens_out and every provider, model, task_type and matrix counter
\* that the first submission fed stand at exactly double their values after
\* the first submission.
C14_DoubleSubmission ==
    SubmittedTwice =>
        LET first == stats[1][1]
            second == kvStats[1]
            u == usage[1][1]
        IN  /\ first.totals.requests = 1
            /\ Doubled(second.totals, first.totals)
            /\ Has(first.providers, u.provider) =>
                   Doubled(second.providers[u.provider], first.providers[u.provider])
            /\ Has(first.models, u.model) =>
                   Doubled(second.models[u.model], first.models[u.model])
            /\ Has(first.task_types, u.task_type) =>
                   Doubled(second.task_types[u.task_type], first.task_types[u.task_type])
            /\ Has(first.model_task_matrix, u.model) =>
                   /\ first.model_task_matrix[u.model][u.task_type] = 1
                   /\ second.model_task_matrix[u.model][u.task_type] = 2

C14_Witness ==
    /\ SubmittedTwice
    /\ kvStats[1].totals.requests = 2
    /\ kvStats[1].totals.tokens_in = 2000
    /\ kvStats[1].totals.tokens_out = 1000
    /\ kvStats[1].providers["anthropic"].requests = 2
    /\ kvStats[1].models["claude-opus-4"].tokens_in = 2000
    /\ kvStats[1].task_types["planning"].requests = 2
    /\ kvStats[1].model_task_matrix["claude-opus-4"]["planning"] = 2

----------------------------------------------------------------------------
(* C15 *)

\* the calls that have ended
Ended == {p \in Procs : pc[p] \in {"done", "failed"}}

\* what handleUsageLog answers without env.MEMORY
KVNotBound == [status |-> 500, error |-> "KV not bound"]

C15_Unbound ==
    \A p \in Procs :
        /\ puts[p] = <<>>
        /\ thrown[p] = ""
        /\ pc[p] \in {"idle", "done", "failed"}
        /\ p \in Ended =>
               response[p] = IF via[p] = "POST /usage" THEN <<KVNotBound>> ELSE <<Returned>>

\* C15: while env.MEMORY is not bound, updateModelStats and
\* updateClaudeMaxUsage return at once without raising, POST /usage answers
\* 500 {error: "KV not bound"}, and no call puts anything: the three stores
\* never change.
C15_UnboundIsNoOp ==
    /\ [](~bound => C15_Unbound)
    /\ [][~bound => UNCHANGED <<kvMax, kvStats, kvUsage>>]_vars

\* calls have been made without env.MEMORY, the last one a direct call of
\* updateClaudeMaxUsage over a stored Time-Window record
C15_Witness ==
    /\ ~bound
    /\ kvMax # Absent
    /\ pc[1] = "done"
    /\ via[1] = "updateClaudeMaxUsage"
    /\ response[1] = <<Returned>>
    /\ nStarted = MaxEvents

----------------------------------------------------------------------------
(* C16 *)

\* what handleUsageLog answers at its end (usage.js line 30)
Logged(p) == [status |-> 200, logged |-> TRUE, id |-> id[p]]

\* a get or a put of the bookkeeping of POST /usage p has thrown
BookkeepingFailed(p) ==
    /\ via[p] = "POST /usage"
    /\ thrown[p] = "KV"
    /\ p \in Ended

\* C16: a get or a put that throws in updateModelStats or updateClaudeMaxUsage
\* during POST /usage is swallowed: the request still answers
\* {logged: true, id}.
C16_FailureSwallowed ==
    \A p \in Procs : BookkeepingFailed(p) => response[p] = <<Logged(p)>>

----------------------------------------------------------------------------
(* C17 *)

\* the Time-Window read returned the default state
ReadGaveDefault ==
    /\ lastRead[1].result.tokensUsed = 0
    /\ lastRead[1].result.sessions = 0
    /\ lastRead[1].result.weeklyTokensUsed = 0
    /\ lastRead[1].result.windowStart = lastRead[1].at

\* C17: when the text stored under claude_max_usage or model_stats is no
\* JSON, no operation fails on it: the Time-Window read and the read of the
\* statistics return the default state, and no record operation raises what
\* JSON.parse throws.
C17_MalformedIsAbsent ==
    /\ \A p \in Procs : thrown[p] # "JSON.parse"
    /\ lastRead # <<>> /\ ~Parses(lastRead[1].data) => ReadGaveDefault
    /\ lastStats # <<>> /\ ~Parses(lastStats[1].data) =>
           lastStats[1].outcome = <<getDefaultModelStats(clock)>>

----------------------------------------------------------------------------
(* C18 *)

\* the stored keys that are among the n greatest
Greatest(n) ==
    {k \in DOMAIN kvUsage : Cardinality({o \in DOMAIN kvUsage : o > k}) < n}

\* the instants of the records of a response, in its order
InstantsOf(records) == [i \in 1..Len(records) |-> records[i].timestamp[1]]

\* GET /usage/live p has been served over more than LiveLimit stored records
ServedLive(p) ==
    /\ via[p] = "GET /usage/live"
    /\ bound
    /\ response[p] # <<>>
    /\ Cardinality(DOMAIN kvUsage) > LiveLimit

\* C18: when more than 10 usage records are stored, GET /usage/live answers
\* the records with the 10 greatest keys, in descending order of key.
C18_LiveNewestFirst ==
    \A p \in Procs :
        ServedLive(p) =>
            LET t == InstantsOf(response[p][1].usage)
            IN  /\ Len(t) = LiveLimit
                /\ {t[i] : i \in 1..Len(t)} = Greatest(LiveLimit)
                /\ \A i \in 1..(Len(t) - 1) : t[i] > t[i + 1]

----------------------------------------------------------------------------
(* C19 *)

\* getClaudeMaxUsage has just read a stored record
ReadStored == lastRead # <<>> /\ lastRead[1].data # Absent

----------------------------------------------------------------------------
(* C20 *)

\* what getClaudeMaxUsage returns for the record and the clock request p saw
ReadOf(p) == getClaudeMaxUsage(raw[p], NowOf(p), WeekClockOf(p))

\* C20: what updateClaudeMaxUsage puts is what getClaudeMaxUsage returns for
\* the same stored value and the same clock, with tokensIn + tokensOut added
\* to tokensUsed and to weeklyTokensUsed and 1 added to sessions; windowStart
\* and weekStart are the ones the read returns.
C20_RecordResetsAsRead ==
    \A p \in Recorded :
        LET r == ReadOf(p)
            w == toStore[p][1]
        IN  /\ w.tokensUsed = r.tokensUsed + TotalTokens(p)
            /\ w.weeklyTokensUsed = r.weeklyTokensUsed + TotalTokens(p)
            /\ w.sessions = r.sessions + 1
            /\ w.windowStart = r.windowStart
            /\ w.weekStart = r.weekStart

----------------------------------------------------------------------------
(* C21 *)

\* how many times key k was put by request p
PutCount(p, k) == Cardinality({i \in 1..Len(puts[p]) : puts[p][i] = k})

----------------------------------------------------------------------------
(* C22 *)

\* the body of the POST /usage that was accepted last
LastBody == submitted[Len(submitted)]

\* body.f, or dflt when the body has no f
FieldOr(body, f, dflt) == IF Has(body, f) THEN body[f] ELSE dflt

\* the counters of the stored statistics that the usage object u names, when
\* they are there
CountedUnder(u) ==
    LET s == kvStats[1]
    IN  /\ Has(s.providers, u.provider) /\ s.providers[u.provider].requests >= 1
        /\ Has(s.models, u.model) /\ s.models[u.model].requests >= 1
        /\ Has(s.task_types, u.task_type) /\ s.task_types[u.task_type].requests >= 1
        /\ Has(s.model_task_matrix, u.model)
        /\ Has(s.model_task_matrix[u.model], u.task_type)
        /\ s.model_task_matrix[u.model][u.task_type] >= 1

\* the body has none of the fields that name a counter
NamesNothing(body) ==
    ~Has(body, "provider") /\ ~Has(body, "model") /\ ~Has(body, "task_type")

\* C22: the usage object of a POST /usage takes "unknown" for a missing
\* provider or model, "general" for a missing task_type, 0 for missing
\* tokens_in, tokens_out and cost, and success = true unless the body says
\* false; the request is answered {logged: true, id}, and an event that named
\* no provider, model or task_type is counted under "unknown", "unknown" and
\* "general".
C22_MissingFieldsDefaulted ==
    via[1] = "POST /usage" /\ usage[1] # <<>> =>
        LET b == LastBody
            u == usage[1][1]
        IN  /\ u.provider = FieldOr(b, "provider", "unknown")
            /\ u.model = FieldOr(b, "model", "unknown")
            /\ u.task_type = FieldOr(b, "task_type", "general")
            /\ u.tokens_in = FieldOr(b, "tokens_in", 0)
            /\ u.tokens_out = FieldOr(b, "tokens_out", 0)
            /\ u.cost = FieldOr(b, "cost", <<>>)
            /\ u.success = ~(Has(b, "success") /\ b.success = FALSE)
            /\ kvUsage[id[1]] = u
            /\ pc[1] = "done" =>
                   /\ response[1] = <<Logged(1)>>
                   /\ NamesNothing(b) =>
                          /\ u.provider = "unknown" /\ u.model = "unknown"
                          /\ u.task_type = "general"
                          /\ CountedUnder(u)

\* an event without provider, model, task_type, tokens, cost and success
\* has been recorded after an event that said success: false
C22_Witness ==
    /\ via[1] = "POST /usage"
    /\ pc[1] = "done"
    /\ Len(submitted) = 2
    /\ Has(submitted[1], "success") /\ ~submitted[1].success
    /\ DOMAIN LastBody = {"success"}
    /\ usage[1][1].success
    /\ kvStats[1].providers["unknown"].requests = 1
    /\ kvStats[1].totals.requests = 2

----------------------------------------------------------------------------
(* C23 *)

\* the four request counts of a statistics record agree
Consistent(s) ==
    /\ s.totals.requests = SumRequests(s.providers)
    /\ SumRequests(s.providers) = SumRequests(s.models)
    /\ SumRequests(s.models) = SumRequests(s.task_types)

\* C23: while POST /usage requests overlap, every model_stats value that is
\* stored has totals.requests = sum of providers[*].requests = sum of
\* models[*].requests = sum of task_types[*].requests, and counts no more
\* events than were submitted.
C23_StoredStatsConsistent ==
    kvStats # Absent =>
        /\ Consistent(kvStats[1])
        /\ kvStats[1].totals.requests <= Len(submitted)

\* the same, for the events whose provider, model and task_type are no
\* members of Object.prototype
C23_OrdinaryKeysConsistent ==
    (\A i \in 1..Len(submitted) :
        BuildUsage(submitted[i], 0).provider \notin ObjectPrototypeKeys) =>
    C23_StoredStatsConsistent

\* two overlapping requests have both put model_stats and one update is lost
C23_LostUpdate ==
    /\ \A p \in {1, 2} : pc[p] = "done" /\ via[p] = "POST /usage"
    /\ Len(submitted) = 2
    /\ kvStats[1].totals.requests = 1

----------------------------------------------------------------------------
(* C24 *)

\* sequence a is a beginning of sequence b
IsPrefix(a, b) == Len(a) <= Len(b) /\ \A i \in 1..Len(a) : a[i] = b[i]

\* the puts of request p on the three keys, in order
StorePuts(p) == SelectSeq(puts[p], LAMBDA k : k # "log:error:")

\* request p is a POST /usage of an Opus event that got past the check of
\* env.MEMORY
OpusRequest(p) == via[p] = "POST /usage" /\ usage[p] # <<>> /\ IsOpus(usage[p][1])

C24_Order ==
    \A p \in Procs :
        OpusRequest(p) =>
            /\ IsPrefix(StorePuts(p), <<"usage:", "claude_max_usage", "model_stats">>)
            /\ Len(StorePuts(p)) >= 1 /\ id[p] \in DOMAIN kvUsage
            /\ pc[p] \in {"maxGet", "maxPut", "putStats"} => stats[p] # <<>>
            /\ pc[p] \in {"getStats", "maxGet", "maxPut"} => Len(StorePuts(p)) = 1
            /\ pc[p] = "putStats" => Len(StorePuts(p)) = 2

\* a step in which request p stops with an exception
Stops(p) == pc[p] # "failed" /\ pc'[p] = "failed"

\* C24: a POST /usage of an Opus event puts its raw usage:<ms> record first,
\* then claude_max_usage, then model_stats; it has read model_stats before
\* it reads and puts claude_max_usage; model_stats is put only after the two
\* other puts; and a request that stops with an exception leaves what it has
\* put where it is.
C24_WriteOrder ==
    /\ [](C24_Order)
    /\ [][\A p \in Procs : Stops(p) => UNCHANGED <<kvMax, kvStats, kvUsage>>]_vars

\* an Opus request stopped before its put of model_stats: the raw record
\* and the window record are stored, the statistics are not
C24_Witness ==
    /\ OpusRequest(1)
    /\ pc[1] = "failed"
    /\ StorePuts(1) = <<"usage:", "claude_max_usage">>
    /\ id[1] \in DOMAIN kvUsage
    /\ kvMax = toStore[1]
    /\ kvStats = Absent

----------------------------------------------------------------------------
(* C25 *)

\* in every claude_max_usage record that record calls have written, starting
\* from an absent record, tokensUsed is at most weeklyTokensUsed
C25_WindowWithinWeek ==
    kvMax # Absent => kvMax[1].tokensUsed <= kvMax[1].weeklyTokensUsed

\* C25: in every claude_max_usage record that record calls have written,
\* starting from an absent record, tokensUsed is at most weeklyTokensUsed
\* whenever the window began in the week the record counts
\* (windowStart >= weekStart); a window that began before Monday 00:00 UTC
\* and is still open keeps its tokens while weeklyTokensUsed restarts.
C25_WindowOfThisWeek ==
    kvMax # Absent /\ kvMax[1].windowStart >= kvMax[1].weekStart =>
        kvMax[1].tokensUsed <= kvMax[1].weeklyTokensUsed


\* the window was restarted within the week: it holds the tokens of the last
\* event, the week those of both
C25_Witness ==
    /\ kvMax # Absent
    /\ kvMax[1].windowStart > kvMax[1].weekStart
    /\ kvMax[1].sessions = 1
    /\ 0 < kvMax[1].tokensUsed
    /\ kvMax[1].tokensUsed < kvMax[1].weeklyTokensUsed

----------------------------------------------------------------------------
(* C26 *)

\* the sum of the cells of one row of the matrix
RECURSIVE SumCellsOver(_, _)
SumCellsOver(row, tasks) ==
    IF tasks = {} THEN 0
    ELSE LET t == CHOOSE x \in tasks : TRUE
         IN  row[t] + SumCellsOver(row, tasks \ {t})

RowSum(row) == SumCellsOver(row, DOMAIN row)

\* the sum of all cells of the matrix
RECURSIVE SumRowsOver(_, _)
SumRowsOver(matrix, models) ==
    IF models = {} THEN 0
    ELSE LET m == CHOOSE x \in models : TRUE
         IN  RowSum(matrix[m]) + SumRowsOver(matrix, models \ {m})

MatrixSum(matrix) == SumRowsOver(matrix, DOMAIN matrix)

\* C26: in every stored model_stats record, built from an absent record, the
\* sum of daily[*].requests equals totals.requests, the sum of all cells of
\* model_task_matrix equals totals.requests, and the cells of each model m
\* sum to models[m].requests.
C26_DailyAndMatrixSums ==
    kvStats # Absent =>
        LET s == kvStats[1]
        IN  /\ SumRequests(s.daily) = s.totals.requests
            /\ MatrixSum(s.model_task_matrix) = s.totals.requests
            /\ DOMAIN s.model_task_matrix = DOMAIN s.models
            /\ \A m \in DOMAIN s.models :
                   RowSum(s.model_task_matrix[m]) = s.models[m].requests

\* events were recorded on two days, for two models
C26_TwoDaysTwoModels ==
    /\ kvStats # Absent
    /\ Cardinality(DOMAIN kvStats[1].daily) = 2
    /\ Cardinality(DOMAIN kvStats[1].models) = 2
    /\ kvStats[1].totals.requests = 2

----------------------------------------------------------------------------
(* C27 *)

\* the POST /usage requests that have been answered {logged: true, id}
Answered == {p \in Procs : via[p] = "POST /usage" /\ response[p] = <<Logged(p)>>}

\* C27: every POST /usage stores its raw record under a key of its own: two
\* requests that were answered hold different ids, and when no request is
\* in flight there are as many usage:<ms> records as requests were recorded.
C27_OneRecordPerRequest ==
    /\ \A p, q \in Answered : p # q => id[p] # id[q]
    /\ Quiet => Cardinality(DOMAIN kvUsage) = Len(submitted)

----------------------------------------------------------------------------
(* C28 *)

\* instant w is a Monday 00:00 UTC and instant t lies in the week from w
WeekOf(w, t) ==
    /\ w % DayMs = 0
    /\ getUTCDay(w) = 1
    /\ w <= t
    /\ t < w + WeekMs

\* C28: the weekStart a record call stores is a Monday 00:00 UTC with
\* weekStart <= now < weekStart + 7 days, now being the instant the call
\* took for now, whatever the clock returned to getWeekStart() and whether
\* or not the stored record had a weekStart.
C28_WeekStartHoldsNow ==
    \A p \in Recorded : WeekOf(toStore[p][1].weekStart, NowOf(p))

\* the same for the calls that were given one clock value for now and for
\* the week start
C28_OneClockValue ==
    \A p \in Recorded :
        NowOf(p) = WeekClockOf(p) => WeekOf(toStore[p][1].weekStart, NowOf(p))

\* a record call found no weekStart in the stored record
C28_MissingWeekStart ==
    \E p \in Recorded : raw[p] # Absent /\ ~Has(raw[p][1], "weekStart")

----------------------------------------------------------------------------
(* C29 *)

\* the read just made found no record, or found the window expired
ReadSawNoOpenWindow ==
    \/ lastRead[1].data = Absent
    \/ lastRead[1].at - lastRead[1].data[1].windowStart > windowDurationMs

\* the read just made happened in the millisecond in which the stored window
\* began
ReadAtWindowStart ==
    lastRead[1].data # Absent /\ lastRead[1].at = lastRead[1].data[1].windowStart

\* every read returns a timeRemainingMs in [0, windowDurationMs], equal to
\* windowDurationMs exactly when the read found the window expired or the
\* record absent
C29_FullTimeOnlyAfterReset ==
    lastRead # <<>> =>
        /\ lastRead[1].result.timeRemainingMs \in 0..windowDurationMs
        /\ lastRead[1].result.timeRemainingMs = windowDurationMs <=> ReadSawNoOpenWindow

\* C29: every read returns a timeRemainingMs in [0, windowDurationMs]; it
\* equals windowDurationMs exactly when the read found the window expired,
\* found no record, or was made in the very millisecond in which the stored
\* window began.
C29_TimeRemaining ==
    lastRead # <<>> =>
        /\ lastRead[1].result.timeRemainingMs \in 0..windowDurationMs
        /\ lastRead[1].result.timeRemainingMs = windowDurationMs
               <=> (ReadSawNoOpenWindow \/ ReadAtWindowStart)

\* a record call began a window and the read follows in the same millisecond
C29_Witness ==
    /\ lastRead # <<>>
    /\ ReadAtWindowStart
    /\ lastRead[1].data[1].tokensUsed > 0
    /\ lastRead[1].result.timeRemainingMs = windowDurationMs

----------------------------------------------------------------------------
(* C30 *)

\* request p is an update request that found no record
UpdateOfAbsent(p) ==
    /\ via[p] \in {UpdateRoutes.task, UpdateRoutes.note}
    /\ bound
    /\ pc[p] = "failed"

\* the step is the put of update request p
PutsUpdate(p) == pc[p] = "updatePut" /\ pc'[p] = "done"

\* C30: an update request for an id that is not stored answers 404 and puts
\* nothing, and no update request puts a value under a key that is absent
\* from the store when it puts, whatever DELETE ran since its get.
C30_UpdateNeverCreates ==
    /\ [](\A p \in Procs :
            UpdateOfAbsent(p) => response[p][1].status = 404 /\ puts[p] = <<>>)
    /\ [][\A p \in Procs : PutsUpdate(p) => KeyOf(p) \in DOMAIN kvRecords]_vars

\* the same without the deletes that run between the get and the put of an
\* update: no step brings a key into the store unless the key was deleted
\* while an update of it was suspended
C30_OnlyFoundIsUpdated ==
    /\ [](\A p \in Procs :
            UpdateOfAbsent(p) => response[p][1].status = 404 /\ puts[p] = <<>>)
    /\ [][\A p \in Procs : PutsUpdate(p) => existing[p] # <<>>]_vars

====
